---- MODULE Spec2Model ----
(***************************************************************************)
(* instant-netboot: the request router of the TFTP netboot server          *)
(* (instant-netboot/src/instant_netboot.rs, tftp.rs), the syslinux label  *)
(* it serves and the conversion of a UAPI boot entry into that label       *)
(* (boot-loader-entries/src/syslinux.rs, uapi.rs).                         *)
(*                                                                         *)
(* Spec is the server handling requests; SpecTryFrom and SpecNfs apply     *)
(* the converter and the NFS augmentation to one argument each.            *)
(*                                                                         *)
(* Text is a sequence of one-character strings, so that formatting,        *)
(* path comparison and the regular expressions are computed character by   *)
(* character.  A std::path::Path is its text; "0xFF" stands for a byte     *)
(* that is not valid UTF-8 and "U+FFFD" for the replacement character.     *)
(***************************************************************************)
EXTENDS Integers, Sequences, FiniteSets, TLC

VARIABLES
    configuration,  \* NetbootServer.configuration: the base syslinux::Label
    nfs,            \* NetbootServer.nfs: Option<NfsConfiguration>
    constructed,    \* what the server was constructed with (history)
    requests,       \* the tftp_get tasks, one per slot
    crashed,        \* a panic has taken the process down
    call            \* one application of a pure function: argument and result

vars == <<configuration, nfs, constructed, requests, crashed, call>>

-----------------------------------------------------------------------------
(* Bounds *)

\* tftp_get tasks that can be in flight at once
MaxRequests == 2
\* keys of a uapi::BootEntry given to the converter
MaxKeys == 4

-----------------------------------------------------------------------------
(* Text *)

BadByte == "0xFF"
ReplacementChar == "U+FFFD"
NoText == <<>>

Digit(n) == CASE n = 0 -> "0" [] n = 1 -> "1" [] n = 2 -> "2" [] n = 3 -> "3"
              [] n = 4 -> "4" [] n = 5 -> "5" [] n = 6 -> "6" [] n = 7 -> "7"
              [] n = 8 -> "8" [] n = 9 -> "9"

\* u8 as decimal text, as fmt::Display prints it
RECURSIVE Decimal(_)
Decimal(n) == IF n < 10 THEN <<Digit(n)>> ELSE Decimal(n \div 10) \o <<Digit(n % 10)>>

\* [String]::join(sep)
RECURSIVE Join(_, _)
Join(tokens, sep) ==
    IF tokens = <<>> THEN <<>>
    ELSE IF Len(tokens) = 1 THEN tokens[1]
    ELSE tokens[1] \o sep \o Join(Tail(tokens), sep)

\* Path::display(): lossy UTF-8, every invalid byte becomes U+FFFD
PathDisplay(path) ==
    [i \in 1..Len(path) |-> IF path[i] = BadByte THEN ReplacementChar ELSE path[i]]

\* Path::to_str(): None when the path is not valid UTF-8
IsUtf8(path) == \A i \in 1..Len(path) : path[i] # BadByte

-----------------------------------------------------------------------------
(* std::path::Path, as the router uses it: components, ==, strip_prefix *)

\* the text between separators, empty pieces included
RECURSIVE Segments(_)
Segments(path) ==
    IF \A i \in 1..Len(path) : path[i] # "/" THEN <<path>>
    ELSE LET k == CHOOSE i \in 1..Len(path) :
                      path[i] = "/" /\ \A j \in 1..(i - 1) : path[j] # "/"
         IN  <<SubSeq(path, 1, k - 1)>> \o Segments(SubSeq(path, k + 1, Len(path)))

HasRoot(path) == Len(path) > 0 /\ path[1] = "/"

\* a piece Components skips inside a path: an empty one (repeated or trailing
\* separator) or "."
Skipped(seg) == seg = <<>> \/ seg = <<".">>

RECURSIVE DropSkipped(_)
DropSkipped(segs) ==
    IF segs = <<>> THEN <<>>
    ELSE IF Skipped(segs[1]) THEN DropSkipped(Tail(segs))
    ELSE <<segs[1]>> \o DropSkipped(Tail(segs))

\* Path::components(): RootDir for a leading separator, CurDir only for a
\* leading ".", no component for repeated separators, inner "." or a trailing
\* separator
Components(path) ==
    LET segs == Segments(path) IN
    IF path = <<>> THEN <<>>
    ELSE IF HasRoot(path) THEN <<"RootDir">> \o DropSkipped(Tail(segs))
    ELSE IF segs[1] = <<".">> THEN <<"CurDir">> \o DropSkipped(Tail(segs))
    ELSE DropSkipped(segs)

\* impl PartialEq for Path: component by component
PathEq(a, b) == Components(a) = Components(b)

RECURSIVE TrimLeft(_)
TrimLeft(segs) ==
    IF segs # <<>> /\ Skipped(segs[1]) THEN TrimLeft(Tail(segs)) ELSE segs

RECURSIVE TrimRight(_)
TrimRight(segs) ==
    IF segs # <<>> /\ Skipped(segs[Len(segs)])
    THEN TrimRight(SubSeq(segs, 1, Len(segs) - 1)) ELSE segs

PxeDirectory == <<"p","x","e","l","i","n","u","x",".","c","f","g">>

\* path.strip_prefix("pxelinux.cfg").is_ok(): the first component is the
\* directory
HasPxePrefix(path) ==
    LET comps == Components(path) IN comps # <<>> /\ comps[1] = PxeDirectory

\* the Ok value of strip_prefix: the text after the first component, without
\* the separators and "." around it
PxeRemainder(path) ==
    Join(TrimRight(TrimLeft(Tail(Segments(path)))), <<"/">>)

-----------------------------------------------------------------------------
(* is_pxe_config_path *)

LowerHex == {"0","1","2","3","4","5","6","7","8","9","a","b","c","d","e","f"}
UpperHex == {"0","1","2","3","4","5","6","7","8","9","A","B","C","D","E","F"}

\* ^[0-9a-f]{8}-[0-9a-f]{4}-[0-9a-f]{4}-[0-9a-f]{4}-[0-9a-f]{12}$
UUID(s) ==
    /\ Len(s) = 36
    /\ \A i \in 1..Len(s) :
           IF i \in {9, 14, 19, 24} THEN s[i] = "-" ELSE s[i] \in LowerHex

\* ^01-([0-9a-f]{2}-){5}[0-9a-f]{2}$
MAC_ADDRESS(s) ==
    /\ Len(s) = 20
    /\ s[1] = "0" /\ s[2] = "1" /\ s[3] = "-"
    /\ \A i \in 4..Len(s) :
           IF (i - 3) % 3 = 0 THEN s[i] = "-" ELSE s[i] \in LowerHex

\* ^[A-F0-9]{1,8}$
IP_ADDRESS(s) ==
    /\ Len(s) \in 1..8
    /\ \A i \in 1..Len(s) : s[i] \in UpperHex

MatchesIdentifier(s) == UUID(s) \/ MAC_ADDRESS(s) \/ IP_ADDRESS(s)

\* "true" / "false" for Ok(true) / Ok(false), "invalid" for
\* Err(InvalidRequestPath)
is_pxe_config_path(path) ==
    IF ~HasPxePrefix(path) THEN "false"
    ELSE IF ~IsUtf8(PxeRemainder(path)) THEN "invalid"
    ELSE IF MatchesIdentifier(PxeRemainder(path)) THEN "true"
    ELSE "false"

-----------------------------------------------------------------------------
(* syslinux::Label *)

Kernel(path) == [tag |-> "Kernel", path |-> path]
Initrd(path) == [tag |-> "Initrd", path |-> path, tokens |-> <<>>]
Fdt(path) == [tag |-> "Fdt", path |-> path, tokens |-> <<>>]
LabelDirectiveAppend(tokens) == [tag |-> "Append", path |-> NoText, tokens |-> tokens]

Label(name, kernel, directives) ==
    [name |-> name, kernel |-> kernel, directives |-> directives]

\* impl fmt::Display for Kernel
KernelDisplay(kernel) == <<"K","E","R","N","E","L"," ">> \o PathDisplay(kernel.path)

\* mutant: the space after the keyword is forgotten
LabelDirectiveDisplayNoSpace(d) ==
    CASE d.tag = "Initrd" -> <<"I","N","I","T","R","D">> \o PathDisplay(d.path)
      [] d.tag = "Fdt" -> <<"F","D","T">> \o PathDisplay(d.path)
      [] d.tag = "Append" -> <<"A","P","P","E","N","D">> \o Join(d.tokens, <<" ">>)

\* impl fmt::Display for LabelDirective
LabelDirectiveDisplay(d) ==
    CASE d.tag = "Initrd" -> <<"I","N","I","T","R","D"," ">> \o PathDisplay(d.path)
      [] d.tag = "Fdt" -> <<"F","D","T"," ">> \o PathDisplay(d.path)
      [] d.tag = "Append" -> <<"A","P","P","E","N","D"," ">> \o Join(d.tokens, <<" ">>)

RECURSIVE DirectiveLines(_)
DirectiveLines(directives) ==
    IF directives = <<>> THEN <<>>
    ELSE LabelDirectiveDisplay(directives[1]) \o <<"\n">>
             \o DirectiveLines(Tail(directives))

\* impl fmt::Display for Label
LabelDisplay(label) ==
    <<"L","A","B","E","L"," ">> \o label.name \o <<"\n">>
        \o KernelDisplay(label.kernel) \o <<"\n">>
        \o DirectiveLines(label.directives)

\* mutant: an Append directive exposes its tokens as a file
DirectiveBootFileWithAppend(d) ==
    IF d.tag = "Append" THEN <<Join(d.tokens, <<" ">>)>> ELSE <<d.path>>

\* impl BootFile for LabelDirective: <<path>> for Some(path), <<>> for None
DirectiveBootFile(d) == IF d.tag \in {"Initrd", "Fdt"} THEN <<d.path>> ELSE <<>>

\* impl BootFile for Kernel
KernelBootFile(kernel) == <<kernel.path>>

RECURSIVE DirectiveFiles(_)
DirectiveFiles(directives) ==
    IF directives = <<>> THEN <<>>
    ELSE DirectiveBootFile(directives[1]) \o DirectiveFiles(Tail(directives))

\* the files of the directives, in order, then the kernel
listed_files(label) ==
    DirectiveFiles(label.directives) \o KernelBootFile(label.kernel)

-----------------------------------------------------------------------------
(* uapi::BootEntry and its conversion to a Label *)

Title(text) == [tag |-> "Title", text |-> text, tokens |-> <<>>]
Linux(path) == [tag |-> "Linux", text |-> path, tokens |-> <<>>]
Devicetree(path) == [tag |-> "Devicetree", text |-> path, tokens |-> <<>>]
Options(tokens) == [tag |-> "Options", text |-> NoText, tokens |-> tokens]

\* mutant: a Devicetree key becomes an Initrd directive
LabelDirectiveTryFromInitrd(key) ==
    CASE key.tag = "Title" -> <<>>
      [] key.tag = "Linux" -> <<>>
      [] key.tag = "Devicetree" -> <<Initrd(key.text)>>
      [] key.tag = "Options" -> <<LabelDirectiveAppend(key.tokens)>>

\* impl TryFrom<uapi::EntryKey> for LabelDirective: <<d>> for Ok(d), <<>> for
\* Err(ConfigurationConversionError)
LabelDirectiveTryFrom(key) ==
    CASE key.tag = "Title" -> <<>>
      [] key.tag = "Linux" -> <<>>
      [] key.tag = "Devicetree" -> <<Fdt(key.text)>>
      [] key.tag = "Options" -> <<LabelDirectiveAppend(key.tokens)>>

\* mutant: a name or kernel once captured is kept
RECURSIVE ScanKeysFirstWins(_, _)
ScanKeysFirstWins(keys, acc) ==
    IF keys = <<>> THEN acc
    ELSE LET key == keys[1] IN
         ScanKeysFirstWins(Tail(keys),
             CASE key.tag = "Title" ->
                      IF acc.name = <<>> THEN [acc EXCEPT !.name = <<key.text>>] ELSE acc
               [] key.tag = "Linux" ->
                      IF acc.kernel = <<>> THEN [acc EXCEPT !.kernel = <<key.text>>] ELSE acc
               [] OTHER -> [acc EXCEPT !.directives = @ \o LabelDirectiveTryFrom(key)])

\* the filter_map closure over the keys, in order: name and kernel are the
\* captured Option<String> and Option<PathBuf>, directives what is collected
RECURSIVE ScanKeys(_, _)
ScanKeys(keys, acc) ==
    IF keys = <<>> THEN acc
    ELSE LET key == keys[1] IN
         ScanKeys(Tail(keys),
             CASE key.tag = "Title" -> [acc EXCEPT !.name = <<key.text>>]
               [] key.tag = "Linux" -> [acc EXCEPT !.kernel = <<key.text>>]
               [] OTHER -> [acc EXCEPT !.directives = @ \o LabelDirectiveTryFrom(key)])

ConversionError == [ok |-> FALSE, label |-> Label(NoText, Kernel(NoText), <<>>)]

\* mutant: a missing Linux key is not an error, the kernel path is left empty
LabelTryFromDefaultKernel(keys) ==
    LET scan == ScanKeys(keys, [name |-> <<>>, kernel |-> <<>>, directives |-> <<>>]) IN
    IF scan.name = <<>> THEN ConversionError
    ELSE [ok |-> TRUE,
          label |-> Label(scan.name[1],
                          Kernel(IF scan.kernel = <<>> THEN NoText ELSE scan.kernel[1]),
                          scan.directives)]

\* impl TryFrom<uapi::BootEntry> for Label
LabelTryFrom(keys) ==
    LET scan == ScanKeys(keys, [name |-> <<>>, kernel |-> <<>>, directives |-> <<>>]) IN
    IF scan.name = <<>> THEN ConversionError
    ELSE IF scan.kernel = <<>> THEN ConversionError
    ELSE [ok |-> TRUE,
          label |-> Label(scan.name[1], Kernel(scan.kernel[1]), scan.directives)]

-----------------------------------------------------------------------------
(* parser.rs: the nom parser of the UAPI text format *)

\* is_line_ending
is_line_ending(c) == c = "\r" \/ c = "\n"

\* the characters char::is_whitespace accepts, of those used here ("\f"
\* stands for the white space that is neither blank nor line ending)
Whitespace == {" ", "\t", "\n", "\r", "\f"}

\* the characters space1 accepts
Blanks == {" ", "\t"}

LineEndingChars == {c \in Whitespace : is_line_ending(c)}

UpperCase == <<"A","B","C","D","E","F","G","H","I","J","K","L","M","N","O","P","Q","R","S","T","U","V","W","X","Y","Z">>
LowerCase == <<"a","b","c","d","e","f","g","h","i","j","k","l","m","n","o","p","q","r","s","t","u","v","w","x","y","z">>

\* char::to_lowercase
ToLowercase(c) ==
    IF \E i \in 1..Len(UpperCase) : UpperCase[i] = c
    THEN LowerCase[CHOOSE i \in 1..Len(UpperCase) : UpperCase[i] = c]
    ELSE c

\* how many characters stand before the first one of the set stop
TakeTill(input, stop) ==
    IF \A i \in 1..Len(input) : input[i] \notin stop THEN Len(input)
    ELSE (CHOOSE i \in 1..Len(input) :
              input[i] \in stop /\ \A j \in 1..(i - 1) : input[j] \notin stop) - 1

\* how many leading characters are of the set accepted
TakeWhile(input, accepted) ==
    IF \A i \in 1..Len(input) : input[i] \in accepted THEN Len(input)
    ELSE (CHOOSE i \in 1..Len(input) :
              input[i] \notin accepted /\ \A j \in 1..(i - 1) : input[j] \in accepted) - 1

After(input, n) == SubSeq(input, n + 1, Len(input))

\* an IResult: Ok((rest, out)), or Err(nom::Err::Error(error)) with rest for
\* error.input; the complete parsers used here make no Err::Incomplete and
\* no Err::Failure
ParseOk(rest, out) == [ok |-> TRUE, rest |-> rest, out |-> out, err |-> "none"]
ParseError(input) == [ok |-> FALSE, rest |-> input, out |-> <<>>, err |-> "Error"]

\* the first n characters matched; the 1 variant fails on an empty match
Split(input, n) == ParseOk(After(input, n), SubSeq(input, 1, n))
Split1(input, n) == IF n = 0 THEN ParseError(input) ELSE Split(input, n)

\* non_space: split_at_position_complete(char::is_whitespace); it succeeds
\* on every input, with an empty match when none or a white space is first
non_space(input) == Split(input, TakeTill(input, Whitespace))

\* character::complete::space1
space1(input) == Split1(input, TakeWhile(input, Blanks))

\* single_string_argument: take_till1(is_line_ending)
single_string_argument(input) == Split1(input, TakeTill(input, LineEndingChars))

\* mutant: the keyword is compared as it is spelled
tag_case_sensitive(tag, input) ==
    IF Len(input) >= Len(tag) /\ \A i \in 1..Len(tag) : input[i] = tag[i]
    THEN Split(input, Len(tag))
    ELSE ParseError(input)

\* bytes::complete::tag_no_case
tag_no_case(tag, input) ==
    IF /\ Len(input) >= Len(tag)
       /\ \A i \in 1..Len(tag) : ToLowercase(input[i]) = ToLowercase(tag[i])
    THEN Split(input, Len(tag))
    ELSE ParseError(input)

\* the loop of separated_list0(space1, non_space) after the first token: sep
\* is what space1 made of the input, token what non_space made of the rest; a
\* separator that consumed nothing is an error (the infinite loop check)
RECURSIVE MoreTokens(_, _)
PushToken(res, token) == MoreTokens(token.rest, Append(res, token.out))
TokenAfter(input, res, sep) ==
    IF ~sep.ok THEN ParseOk(input, res)
    ELSE IF Len(sep.rest) = Len(input) THEN ParseError(sep.rest)
    ELSE PushToken(res, non_space(sep.rest))
MoreTokens(input, res) == TokenAfter(input, res, space1(input))

\* space_separated_list: separated_list0(space1, non_space)
FirstToken(first) == MoreTokens(first.rest, <<first.out>>)
space_separated_list(input) == FirstToken(non_space(input))

\* the next parser of a sequence, applied to what the one before it left
SpaceAfter(tag) == IF tag.ok THEN space1(tag.rest) ELSE tag
ArgumentAfter(head) == IF head.ok THEN single_string_argument(head.rest) ELSE head
ListAfter(head) == IF head.ok THEN space_separated_list(head.rest) ELSE head

\* separated_pair(tag_no_case(keyword), space1, argument), up to the argument
KeywordAndSpace(keyword, input) == SpaceAfter(tag_no_case(keyword, input))

LinuxOf(path) == IF path.ok THEN ParseOk(path.rest, <<Linux(path.out)>>) ELSE path
DevicetreeOf(path) == IF path.ok THEN ParseOk(path.rest, <<Devicetree(path.out)>>) ELSE path
OptionsOf(list) == IF list.ok THEN ParseOk(list.rest, <<Options(list.out)>>) ELSE list
TitleOf(text) == IF text.ok THEN ParseOk(text.rest, <<Title(text.out)>>) ELSE text

linux(input) == LinuxOf(ArgumentAfter(KeywordAndSpace(<<"l","i","n","u","x">>, input)))
devicetree(input) == DevicetreeOf(ArgumentAfter(KeywordAndSpace(<<"d","e","v","i","c","e","t","r","e","e">>, input)))
options(input) == OptionsOf(ListAfter(KeywordAndSpace(<<"o","p","t","i","o","n","s">>, input)))
title(input) == TitleOf(ArgumentAfter(KeywordAndSpace(<<"t","i","t","l","e">>, input)))

\* Parser::or: the second parser's result when the first one failed
Or(first, second) == IF first.ok THEN first ELSE second

\* entry_key: linux.or(devicetree).or(options).or(title)
entry_key(input) ==
    Or(Or(Or(linux(input), devicetree(input)), options(input)), title(input))

\* mutant: only a bare "\n" ends a line
line_ending_lf_only(input) ==
    IF Len(input) >= 1 /\ input[1] = "\n" THEN ParseOk(After(input, 1), <<>>)
    ELSE ParseError(input)

\* character::complete::line_ending: "\n" or "\r\n"
line_ending(input) ==
    IF Len(input) >= 1 /\ input[1] = "\n" THEN ParseOk(After(input, 1), <<>>)
    ELSE IF Len(input) >= 2 /\ input[1] = "\r" /\ input[2] = "\n"
    THEN ParseOk(After(input, 2), <<>>)
    ELSE ParseError(input)

\* many1(line_ending): one line ending, then as many as follow; a line
\* ending that consumed nothing is an error (the infinite loop check)
RECURSIVE MoreLineEndings(_)
NextLineEnding(input, next) ==
    IF ~next.ok THEN ParseOk(input, <<>>)
    ELSE IF Len(next.rest) = Len(input) THEN ParseError(input)
    ELSE MoreLineEndings(next.rest)
MoreLineEndings(input) == NextLineEnding(input, line_ending(input))
FirstLineEnding(first) == IF first.ok THEN MoreLineEndings(first.rest) ELSE first

\* mutant: the separator is many0(line_ending), which matches no line ending
\* at all
many0_line_ending(input) == MoreLineEndings(input)

many1_line_ending(input) == FirstLineEnding(line_ending(input))

\* the loop of separated_list0(many1(line_ending), entry_key) after the first
\* key: when the separator is not followed by a key, the list ends before the
\* separator; a separator that consumed nothing is an error (the infinite
\* loop check)
RECURSIVE MoreKeys(_, _)
KeyAfter(input, res, key) ==
    IF ~key.ok THEN ParseOk(input, res) ELSE MoreKeys(key.rest, res \o key.out)
SeparatorThenKey(input, res, sep) ==
    IF ~sep.ok THEN ParseOk(input, res)
    ELSE IF Len(sep.rest) = Len(input) THEN ParseError(sep.rest)
    ELSE KeyAfter(input, res, entry_key(sep.rest))
MoreKeys(input, res) == SeparatorThenKey(input, res, many1_line_ending(input))

\* separated_list0(many1(line_ending), entry_key)
FirstKey(input, first) ==
    IF ~first.ok THEN ParseOk(input, <<>>) ELSE MoreKeys(first.rest, first.out)
KeyList(input) == FirstKey(input, entry_key(input))

\* terminated(.., opt(line_ending)): last is what line_ending made of what
\* the list left; an error of the list is the error of the whole
OptLineEnding(list, last) == ParseOk(IF last.ok THEN last.rest ELSE list.rest, list.out)
TerminatedList(list) ==
    IF list.ok THEN OptLineEnding(list, line_ending(list.rest)) ELSE list

\* boot_entry: terminated(the key list, opt(line_ending)), its error passed
\* on; out is BootEntry.keys
boot_entry(input) == TerminatedList(KeyList(input))

-----------------------------------------------------------------------------
(* uapi.rs: Display and FromStr of a BootEntry *)

\* mutant: the tokens of an Options key are written without a separator
EntryKeyDisplayJoined(key) ==
    CASE key.tag = "Linux" -> <<"l","i","n","u","x"," ">> \o PathDisplay(key.text)
      [] key.tag = "Devicetree" -> <<"d","e","v","i","c","e","t","r","e","e"," ">> \o PathDisplay(key.text)
      [] key.tag = "Options" -> <<"o","p","t","i","o","n","s"," ">> \o Join(key.tokens, <<>>)
      [] key.tag = "Title" -> <<"t","i","t","l","e"," ">> \o key.text

\* impl fmt::Display for EntryKey
EntryKeyDisplay(key) ==
    CASE key.tag = "Linux" -> <<"l","i","n","u","x"," ">> \o PathDisplay(key.text)
      [] key.tag = "Devicetree" -> <<"d","e","v","i","c","e","t","r","e","e"," ">> \o PathDisplay(key.text)
      [] key.tag = "Options" -> <<"o","p","t","i","o","n","s"," ">> \o Join(key.tokens, <<" ">>)
      [] key.tag = "Title" -> <<"t","i","t","l","e"," ">> \o key.text

\* impl fmt::Display for BootEntry
RECURSIVE BootEntryDisplay(_)
BootEntryDisplay(keys) ==
    IF keys = <<>> THEN <<>>
    ELSE EntryKeyDisplay(keys[1]) \o <<"\n">> \o BootEntryDisplay(Tail(keys))

\* Error::ErroneousEntry(format!("trailing garbage: \"{}\"", rest))
ErroneousEntry(rest) == <<"t","r","a","i","l","i","n","g"," ","g","a","r","b","a","g","e",":"," ","\"">> \o rest \o <<"\"">>

\* impl From<nom::Err<nom::error::Error<&str>>> for Error: a panic for
\* Incomplete, ErroneousEntry(error.input) for Error and Failure
ErrorFromNom(value) ==
    [ok |-> FALSE, keys |-> <<>>,
     error |-> IF value.err = "Incomplete" THEN NoText ELSE value.rest,
     panicked |-> value.err = "Incomplete"]

\* parser::boot_entry(input).map_err(Into::into)?, then the match on rest:
\* Ok(entry) for "", Err(ErroneousEntry) otherwise
MatchRest(parsed) ==
    IF ~parsed.ok THEN ErrorFromNom(parsed)
    ELSE IF parsed.rest = <<>>
    THEN [ok |-> TRUE, keys |-> parsed.out, error |-> NoText, panicked |-> FALSE]
    ELSE [ok |-> FALSE, keys |-> <<>>, error |-> ErroneousEntry(parsed.rest),
          panicked |-> FALSE]

\* mutant: text left over by the parser is not an error
BootEntryFromStrLenient(input) ==
    [ok |-> TRUE, keys |-> boot_entry(input).out, error |-> NoText, panicked |-> FALSE]

\* impl FromStr for BootEntry
BootEntryFromStr(input) == MatchRest(boot_entry(input))

-----------------------------------------------------------------------------
(* NfsConfiguration and the augmentation of a label *)

NfsConfiguration(host, share, version, target_ip, is_writable) ==
    [host |-> host, share |-> share, version |-> version,
     target_ip |-> target_ip, is_writable |-> is_writable]

\* impl fmt::Display for Ipv4Addr: the four octets in decimal
IpAddrDisplay(host) ==
    Decimal(host[1]) \o <<".">> \o Decimal(host[2]) \o <<".">>
        \o Decimal(host[3]) \o <<".">> \o Decimal(host[4])

make_nfsroot_option(cfg) ==
    LET version == CASE cfg.version = "NFSv3" -> <<"3">>
                     [] cfg.version = "NFSv4" -> <<"4">>
    IN  <<"n","f","s","r","o","o","t","=">> \o IpAddrDisplay(cfg.host) \o <<":">> \o PathDisplay(cfg.share)
            \o <<",","v","e","r","s","=">> \o version \o <<",","t","c","p">>

\* mutant: the panic is not confined to the Static arm
make_ip_option_panics_any(config) == TRUE

\* make_ip_option panics for TargetIpConfiguration::Static
make_ip_option_panics(config) == config = "Static"

make_ip_option(config) ==
    LET spec == CASE config = "Dhcp" -> <<"d","h","c","p">>
    IN  <<"i","p","=">> \o spec

\* mutant: rw and ro the wrong way round
nfs_args_inverted(cfg) ==
    << <<"r","o","o","t","=","/","d","e","v","/","n","f","s">>,
       IF cfg.is_writable THEN <<"r","o">> ELSE <<"r","w">>,
       make_nfsroot_option(cfg),
       <<"r","o","o","t","w","a","i","t">>,
       make_ip_option(cfg.target_ip) >>

\* the vec! of make_nfs_configuration
nfs_args(cfg) ==
    << <<"r","o","o","t","=","/","d","e","v","/","n","f","s">>,
       IF cfg.is_writable THEN <<"r","w">> ELSE <<"r","o">>,
       make_nfsroot_option(cfg),
       <<"r","o","o","t","w","a","i","t">>,
       make_ip_option(cfg.target_ip) >>

\* building the vec! calls make_ip_option, before the label is touched
make_nfs_configuration_panics(cfg) == make_ip_option_panics(cfg.target_ip)

IsAppend(d) == d.tag = "Append"

\* mutant: the last Append directive is found
FindAppendLast(directives) ==
    IF \E i \in 1..Len(directives) : IsAppend(directives[i])
    THEN CHOOSE i \in 1..Len(directives) :
             IsAppend(directives[i]) /\ \A j \in (i + 1)..Len(directives) : ~IsAppend(directives[j])
    ELSE 0

\* directives.iter_mut().find(Append): the index of the first one, 0 for None
FindAppend(directives) ==
    IF \E i \in 1..Len(directives) : IsAppend(directives[i])
    THEN CHOOSE i \in 1..Len(directives) :
             IsAppend(directives[i]) /\ \A j \in 1..(i - 1) : ~IsAppend(directives[j])
    ELSE 0

\* mutant: a new Append directive is always pushed
make_nfs_configuration_push(label, cfg) ==
    [label EXCEPT !.directives = @ \o <<LabelDirectiveAppend(nfs_args(cfg))>>]

\* make_nfs_configuration, on the label it was given by value
make_nfs_configuration(label, cfg) ==
    LET i == FindAppend(label.directives) IN
    IF i # 0
    THEN [label EXCEPT !.directives[i].tokens = @ \o nfs_args(cfg)]
    ELSE [label EXCEPT !.directives = @ \o <<LabelDirectiveAppend(nfs_args(cfg))>>]

-----------------------------------------------------------------------------
(* Inputs *)

Name_F == <<"F">>
Name_G == <<"G">>
Path_Image == <<"I","m","a","g","e">>
Path_vmlinuz == <<"v","m","l","i","n","u","z">>
Path_boot_Image == <<"b","o","o","t","/","I","m","a","g","e">>
Path_boot_dtb == <<"b","o","o","t",".","d","t","b">>
Path_initrd_img == <<"i","n","i","t","r","d",".","i","m","g">>
Path_pxe_boot == <<"p","x","e","l","i","n","u","x",".","c","f","g","/","b","o","o","t">>
Token_quiet == <<"q","u","i","e","t">>
Token_splash == <<"s","p","l","a","s","h">>
Token_debug == <<"d","e","b","u","g">>

\* the labels a server is constructed with
ServerLabels ==
    { Label(Name_F, Kernel(Path_boot_Image),
            <<Fdt(Path_boot_dtb), LabelDirectiveAppend(<<Token_quiet>>)>>),
      Label(Name_G, Kernel(Path_Image),
            <<Initrd(Path_initrd_img), LabelDirectiveAppend(<<Token_quiet>>),
              Fdt(Path_boot_dtb), LabelDirectiveAppend(<<Token_splash, Token_debug>>)>>),
      Label(Name_F, Kernel(Path_pxe_boot), <<Initrd(Path_initrd_img)>>) }

Host_10_0_0_1 == <<10, 0, 0, 1>>
Host_192_168_2_255 == <<192, 168, 2, 255>>
Share_export == <<"/","e","x","p","o","r","t">>
Share_srv_nfs == <<"/","s","r","v","/","n","f","s","/","r","o","o","t">>

\* the Option<NfsConfiguration> a server is constructed with
ServerNfs ==
    { <<>>,
      <<NfsConfiguration(Host_10_0_0_1, Share_export, "NFSv3", "Dhcp", FALSE)>>,
      <<NfsConfiguration(Host_10_0_0_1, Share_export, "NFSv3", "Static", FALSE)>> }

\* the paths clients ask for
RequestPaths ==
    { <<"p","x","e","l","i","n","u","x",".","c","f","g","/","C","0","A","8","0","2","B","A">>,
      <<"p","x","e","l","i","n","u","x",".","c","f","g","/","0","1","-","a","a","-","b","b","-","c","c","-","d","d","-","e","e","-","f","f">>,
      <<"p","x","e","l","i","n","u","x",".","c","f","g","/","6","b","a","7","b","8","1","0","-","9","d","a","d","-","1","1","d","1","-","8","0","b","4","-","0","0","c","0","4","f","d","4","3","0","c","8">>,
      <<"p","x","e","l","i","n","u","x",".","c","f","g","/","n","o","t","-","a","-","v","a","l","i","d","-","i","d">>,
      <<"p","x","e","l","i","n","u","x",".","c","f","g","/","b","o","o","t">>,
      <<"p","x","e","l","i","n","u","x",".","c","f","g">>,
      <<"p","x","e","l","i","n","u","x",".","c","f","g","/">> \o <<BadByte>>,
      <<"I","m","a","g","e">>,
      <<"b","o","o","t","/","I","m","a","g","e">>,
      <<"b","o","o","t","/","/","I","m","a","g","e">>,
      <<"b","o","o","t",".","d","t","b">>,
      <<"i","n","i","t","r","d",".","i","m","g">>,
      <<"q","u","i","e","t">>,
      <<"v","m","l","i","n","u","z">> }

\* what File::open can answer
StorageOutcomes == {"Ok", "NotFound", "Io"}

-----------------------------------------------------------------------------
(* NetbootServer::tftp_get *)

NoResult == [kind |-> "none", content |-> NoText, file |-> NoText]
ConfigStream(content) == [kind |-> "config", content |-> content, file |-> NoText]
FileStream(file) == [kind |-> "file", content |-> NoText, file |-> file]
Error(kind) == [kind |-> kind, content |-> NoText, file |-> NoText]

Idle == [pc |-> "idle", path |-> NoText, opened |-> <<>>, io |-> "none",
         result |-> NoResult]

\* listed_files(..).find(|file| *file == path): <<file>> for Some, <<>> for None
FindFile(files, path) ==
    IF \E i \in 1..Len(files) : PathEq(files[i], path)
    THEN LET i == CHOOSE i \in 1..Len(files) :
                      PathEq(files[i], path) /\ \A j \in 1..(i - 1) : ~PathEq(files[j], path)
         IN  <<files[i]>>
    ELSE <<>>

\* mutant: the NFS configuration is ignored
RequestConfigurationBaseOnly(label, nfsOpt) == label

\* the label a configuration request serializes
RequestConfiguration(label, nfsOpt) ==
    IF nfsOpt # <<>> THEN make_nfs_configuration(label, nfsOpt[1]) ELSE label

\* tftp_get up to its first suspension point: where the task stands, what it
\* asked storage to open, and its result if it has one
Route(label, nfsOpt, path) ==
    LET pxe == is_pxe_config_path(path) IN
    IF pxe = "invalid"
    THEN [pc |-> "done", opened |-> <<>>, result |-> Error("InvalidRequestPath")]
    ELSE IF pxe = "true"
    THEN IF nfsOpt # <<>> /\ make_nfs_configuration_panics(nfsOpt[1])
         THEN [pc |-> "panicked", opened |-> <<>>, result |-> NoResult]
         ELSE [pc |-> "done", opened |-> <<>>,
               result |-> ConfigStream(LabelDisplay(RequestConfiguration(label, nfsOpt)))]
    ELSE LET found == FindFile(listed_files(label), path) IN
         IF found = <<>>
         THEN [pc |-> "done", opened |-> <<>>, result |-> Error("FileNotFound")]
         ELSE [pc |-> "opening", opened |-> found, result |-> NoResult]

\* mutant: the storage's "no such file" is passed on as FileNotFound
OpenResultNotFound(file, io) ==
    IF io = "Ok" THEN FileStream(file)
    ELSE IF io = "NotFound" THEN Error("FileNotFound")
    ELSE Error("IoError")

\* File::open(file).await.map_err(|_| Error::IoError)
OpenResult(file, io) == IF io = "Ok" THEN FileStream(file) ELSE Error("IoError")

\* mutant: the augmentation is done on self.configuration itself
ConfigurationAfterInPlace(label, nfsOpt, path) ==
    IF /\ is_pxe_config_path(path) = "true"
       /\ nfsOpt # <<>>
       /\ ~make_nfs_configuration_panics(nfsOpt[1])
    THEN make_nfs_configuration(label, nfsOpt[1])
    ELSE label

\* what tftp_get leaves in self.configuration: the augmentation works on a
\* clone
ConfigurationAfter(label, nfsOpt, path) == label

Slots == 1..MaxRequests

TftpGet(r, path) ==
    /\ ~crashed
    /\ requests[r].pc = "idle"
    /\ LET step == Route(configuration, nfs, path) IN
       /\ requests' = [requests EXCEPT ![r] =
              [pc |-> step.pc, path |-> path, opened |-> step.opened, io |-> "none",
               result |-> step.result]]
       /\ crashed' \in (IF step.pc = "panicked" THEN BOOLEAN ELSE {FALSE})
    /\ configuration' = ConfigurationAfter(configuration, nfs, path)
    /\ UNCHANGED <<nfs, constructed, call>>

\* the storage answers the open of a suspended task
FileOpened(r, io) ==
    /\ ~crashed
    /\ requests[r].pc = "opening"
    /\ requests' = [requests EXCEPT ![r].pc = "done", ![r].io = io,
                                    ![r].result = OpenResult(requests[r].opened[1], io)]
    /\ UNCHANGED <<configuration, nfs, constructed, crashed, call>>

\* impl From<instant_netboot::Error> for packet::Error
PacketErrorFrom(value) ==
    CASE value = "InvalidRequestPath" ->
             [kind |-> "Msg", msg |-> <<"F","a","i","l","e","d"," ","t","o"," ","p","a","r","s","e"," ","r","e","q","u","e","s","t"," ","p","a","t","h">>]
      [] value = "FileNotFound" -> [kind |-> "FileNotFound", msg |-> NoText]
      [] value = "IoError" -> [kind |-> "Msg", msg |-> <<"I","/","O"," ","e","r","r","o","r">>]

\* read_req_open hands the result to the transport; the task is gone
ReadReqReturn(r) ==
    /\ ~crashed
    /\ requests[r].pc \in {"done", "panicked"}
    /\ requests' = [requests EXCEPT ![r] = Idle]
    /\ UNCHANGED <<configuration, nfs, constructed, crashed, call>>

\* the clients and transfer sizes of write requests
Clients == {"10.0.0.7:1069", "10.0.0.8:1069"}
TransferSizes == {<<>>, <<512>>}

\* mutant: the write is accepted and its data discarded
write_req_open_sink(client, path, size) ==
    [kind |-> "writer", content |-> NoText, file |-> NoText]

\* TftpHandler::write_req_open: Err(packet::Error::IllegalOperation), whatever
\* the client, the path and the size
write_req_open(client, path, size) == Error("IllegalOperation")

\* write_req_open runs to its end in one step: it awaits nothing and touches
\* neither the server nor storage
WriteReqOpen(r, client, path, size) ==
    /\ ~crashed
    /\ requests[r].pc = "idle"
    /\ requests' = [requests EXCEPT ![r] =
           [Idle EXCEPT !.pc = "write_done",
                        !.result = write_req_open(client, path, size)]]
    /\ UNCHANGED <<configuration, nfs, constructed, crashed, call>>

\* the transport takes the result of write_req_open; the task is gone
WriteReqReturn(r) ==
    /\ ~crashed
    /\ requests[r].pc = "write_done"
    /\ requests' = [requests EXCEPT ![r] = Idle]
    /\ UNCHANGED <<configuration, nfs, constructed, crashed, call>>

NoCall == [fn |-> "none", keys |-> <<>>, label |-> Label(NoText, Kernel(NoText), <<>>),
           cfg |-> <<>>, state |-> "idle", out |-> Label(NoText, Kernel(NoText), <<>>),
           text |-> NoText, lines |-> <<>>, ends |-> <<>>, rest |-> NoText,
           error |-> NoText, entry |-> <<>>, serialized |-> FALSE]

\* NetbootServer::new and NetbootServer::with_nfs
Init ==
    /\ configuration \in ServerLabels
    /\ nfs \in ServerNfs
    /\ constructed = [configuration |-> configuration, nfs |-> nfs]
    /\ requests = [r \in Slots |-> Idle]
    /\ crashed = FALSE
    /\ call = NoCall

Next ==
    \/ \E r \in Slots, path \in RequestPaths : TftpGet(r, path)
    \/ \E r \in Slots, io \in StorageOutcomes : FileOpened(r, io)
    \/ \E r \in Slots : ReadReqReturn(r)
    \/ \E r \in Slots, client \in Clients, path \in RequestPaths, size \in TransferSizes :
           WriteReqOpen(r, client, path, size)
    \/ \E r \in Slots : WriteReqReturn(r)

Spec == Init /\ [][Next]_vars

-----------------------------------------------------------------------------
(* The converter, applied to one entry *)

EntryKeys ==
    { Title(Name_F), Title(Name_G), Linux(Path_Image), Linux(Path_vmlinuz),
      Devicetree(Path_boot_dtb), Options(<<Token_quiet>>),
      Options(<<Token_splash, Token_debug>>) }

RECURSIVE SeqsUpTo(_, _)
SeqsUpTo(S, n) ==
    IF n = 0 THEN {<<>>}
    ELSE LET shorter == SeqsUpTo(S, n - 1) IN
         shorter \cup {s \o <<x>> : s \in shorter, x \in S}

Entries == SeqsUpTo(EntryKeys, MaxKeys)

InitTryFrom ==
    /\ configuration = Label(Name_F, Kernel(Path_Image), <<>>)
    /\ nfs = <<>>
    /\ constructed = [configuration |-> configuration, nfs |-> nfs]
    /\ requests = [r \in Slots |-> Idle]
    /\ crashed = FALSE
    /\ call \in {[NoCall EXCEPT !.fn = "try_from", !.keys = keys, !.state = "called"] :
                    keys \in Entries}

\* Label::try_from(entry)
TryFrom ==
    /\ call.fn = "try_from"
    /\ call.state = "called"
    /\ LET r == LabelTryFrom(call.keys) IN
       call' = [call EXCEPT !.state = IF r.ok THEN "ok" ELSE "err", !.out = r.label]
    /\ UNCHANGED <<configuration, nfs, constructed, requests, crashed>>

SpecTryFrom == InitTryFrom /\ [][TryFrom]_vars

-----------------------------------------------------------------------------
(* The augmentation, applied to one label and one NfsConfiguration *)

\* directives a label given to the augmentation may hold
MaxDirectives == 3

LabelDirectives ==
    { Initrd(Path_initrd_img), Fdt(Path_boot_dtb),
      LabelDirectiveAppend(<<Token_quiet>>),
      LabelDirectiveAppend(<<Token_splash, Token_debug>>) }

NfsLabels ==
    { Label(Name_F, Kernel(Path_Image), ds) : ds \in SeqsUpTo(LabelDirectives, MaxDirectives) }

NfsConfigurations ==
    { NfsConfiguration(host, share, version, target_ip, is_writable) :
        host \in {Host_10_0_0_1, Host_192_168_2_255},
        share \in {Share_export, Share_srv_nfs},
        version \in {"NFSv3", "NFSv4"},
        target_ip \in {"Dhcp", "Static"},
        is_writable \in BOOLEAN }

InitNfs ==
    /\ configuration = Label(Name_F, Kernel(Path_Image), <<>>)
    /\ nfs = <<>>
    /\ constructed = [configuration |-> configuration, nfs |-> nfs]
    /\ requests = [r \in Slots |-> Idle]
    /\ crashed = FALSE
    /\ call \in {[NoCall EXCEPT !.fn = "make_nfs", !.label = label, !.cfg = <<cfg>>,
                                !.state = "called"] :
                    label \in NfsLabels, cfg \in NfsConfigurations}

\* make_nfs_configuration(label, &cfg): it returns the label or panics
MakeNfs ==
    /\ call.fn = "make_nfs"
    /\ call.state = "called"
    /\ IF make_nfs_configuration_panics(call.cfg[1])
       THEN call' = [call EXCEPT !.state = "panicked"]
       ELSE call' = [call EXCEPT !.state = "returned",
                                 !.out = make_nfs_configuration(call.label, call.cfg[1])]
    /\ UNCHANGED <<configuration, nfs, constructed, requests, crashed>>

SpecNfs == InitNfs /\ [][MakeNfs]_vars

-----------------------------------------------------------------------------
(* The text formats: the parser, FromStr and Display of a BootEntry, and    *)
(* Display of a Label, each applied to one argument                         *)

\* lines of an input text given to the parser
MaxLines == 2

\* the lines of the input texts: key lines in several spellings, and lines
\* that start with no keyword
ParserLines ==
    { <<"l","i","n","u","x"," ","/","I","m","a","g","e">>,
      <<"L","I","N","U","X","\t","/","v","m","l","i","n","u","z">>,
      <<"T","i","t","l","e"," ","F","e","d","o","r","a"," ","1","9">>,
      <<"d","E","v","I","c","E","t","R","e","E"," ","/","b","o","o","t",".","d","t","b">>,
      <<"o","p","t","i","o","n","s"," ","q","u","i","e","t"," ","s","p","l","a","s","h">>,
      <<"O","P","T","I","O","N","S"," ","a"," "," ","b"," ">>,
      <<"d","e","v","i","s","e","t","r","e","e"," ","/","b","o","o","t",".","d","t","b">>,
      <<"f","o","o"," ","/","b","a","r">> }

\* what stands between two lines, and after the last one
Separators == { <<"\n">>, <<"\r","\n">>, <<"\r","\n","\n">> }
Trailing == { NoText, <<"\n">>, <<"\r","\n">> }

RECURSIVE InputText(_, _)
InputText(lines, ends) ==
    IF lines = <<>> THEN <<>>
    ELSE lines[1] \o ends[1] \o InputText(Tail(lines), Tail(ends))

Name_Fedora_19 == <<"F","e","d","o","r","a"," ","1","9">>

\* the labels given to Display
DisplayLabels ==
    { Label(name, Kernel(path), ds) :
        name \in {Name_F, Name_Fedora_19},
        path \in {Path_Image, Path_boot_Image},
        ds \in SeqsUpTo(LabelDirectives, MaxDirectives) }

InitText ==
    /\ configuration = Label(Name_F, Kernel(Path_Image), <<>>)
    /\ nfs = <<>>
    /\ constructed = [configuration |-> configuration, nfs |-> nfs]
    /\ requests = [r \in Slots |-> Idle]
    /\ crashed = FALSE
    /\ \/ \E fn \in {"boot_entry", "from_str"}, n \in 0..MaxLines :
              \E lines \in [1..n -> ParserLines], ends \in [1..n -> Separators \cup Trailing] :
                  /\ \A i \in 1..n :
                         IF i < n THEN ends[i] \in Separators ELSE ends[i] \in Trailing
                  /\ call = [NoCall EXCEPT !.fn = fn, !.lines = lines, !.ends = ends,
                                           !.text = InputText(lines, ends),
                                           !.state = "called"]
       \/ \E label \in DisplayLabels :
              call = [NoCall EXCEPT !.fn = "to_string", !.label = label,
                                    !.state = "called"]

\* the call with what boot_entry returned
ParsedCall(r) ==
    [call EXCEPT !.state = IF r.ok THEN "parsed" ELSE "err", !.keys = r.out, !.rest = r.rest]

\* parser::boot_entry(input)
ParseBootEntry ==
    /\ call.fn = "boot_entry"
    /\ call.state = "called"
    /\ call' = ParsedCall(boot_entry(call.text))
    /\ UNCHANGED <<configuration, nfs, constructed, requests, crashed>>

\* entry.to_string() of an entry the parser returned, given to from_str
EntryToString ==
    /\ call.fn = "boot_entry"
    /\ call.state = "parsed"
    /\ call' = [call EXCEPT !.fn = "from_str", !.state = "called",
                            !.serialized = TRUE, !.entry = call.keys,
                            !.text = BootEntryDisplay(call.keys),
                            !.keys = <<>>, !.rest = NoText]
    /\ UNCHANGED <<configuration, nfs, constructed, requests, crashed>>

\* the call with what from_str returned
FromStrCall(r) ==
    [call EXCEPT !.state = IF r.panicked THEN "panicked" ELSE IF r.ok THEN "ok" ELSE "err",
                 !.keys = r.keys, !.error = r.error]

\* BootEntry::from_str(input)
FromStr ==
    /\ call.fn = "from_str"
    /\ call.state = "called"
    /\ call' = FromStrCall(BootEntryFromStr(call.text))
    /\ UNCHANGED <<configuration, nfs, constructed, requests, crashed>>

\* label.to_string()
LabelToString ==
    /\ call.fn = "to_string"
    /\ call.state = "called"
    /\ call' = [call EXCEPT !.state = "returned", !.text = LabelDisplay(call.label)]
    /\ UNCHANGED <<configuration, nfs, constructed, requests, crashed>>

NextText == ParseBootEntry \/ EntryToString \/ FromStr \/ LabelToString

SpecText == InitText /\ [][NextText]_vars

-----------------------------------------------------------------------------
(* Claims about the request router (Spec) *)

\* a tftp_get task stands in slot r
Started(r) == requests[r].pc \notin {"idle", "write_done"}
Done(r) == requests[r].pc = "done"

PxePrefixText == <<"p","x","e","l","i","n","u","x",".","c","f","g","/">>

\* the path is pxelinux.cfg/<id>, <id> one of the three identifier encodings
IsIdentifierPath(path) ==
    /\ Len(path) > Len(PxePrefixText)
    /\ SubSeq(path, 1, Len(PxePrefixText)) = PxePrefixText
    /\ MatchesIdentifier(SubSeq(path, Len(PxePrefixText) + 1, Len(path)))

StaticConfigured == nfs # <<>> /\ nfs[1].target_ip = "Static"

\* C1: every request whose path starts with the directory pxelinux.cfg and
\* whose remainder matches none of the three identifier patterns ends in
\* InvalidRequestPath: never FileNotFound, never a storage open, never a file
\* stream.
C1_InvalidIdentifierIsInvalidRequestPath ==
    \A r \in Slots :
        ( /\ Started(r)
          /\ HasPxePrefix(requests[r].path)
          /\ PxeRemainder(requests[r].path) # NoText
          /\ ~MatchesIdentifier(PxeRemainder(requests[r].path)) )
        => /\ Done(r)
           /\ requests[r].opened = <<>>
           /\ requests[r].result = Error("InvalidRequestPath")

\* what C2 says a configuration request returns
C2_Expected ==
    ConfigStream(LabelDisplay(
        IF constructed.nfs = <<>> THEN constructed.configuration
        ELSE make_nfs_configuration(constructed.configuration, constructed.nfs[1])))

\* C2 as stated: every request for pxelinux.cfg/<id> with a valid <id> returns
\* a stream holding the Display text of the base label (no NFS configuration)
\* or of the NFS-augmented base label (any NFS configuration), and opens no
\* file.
C2_Original ==
    \A r \in Slots :
        (Started(r) /\ IsIdentifierPath(requests[r].path))
        => /\ Done(r)
           /\ requests[r].opened = <<>>
           /\ requests[r].result = C2_Expected

\* C2 amended: the same for no NFS configuration or one with target_ip = Dhcp;
\* with target_ip = Static the request panics and returns nothing.
C2_ConfigurationContent ==
    \A r \in Slots :
        (Started(r) /\ IsIdentifierPath(requests[r].path))
        => /\ requests[r].opened = <<>>
           /\ IF StaticConfigured
              THEN requests[r].pc = "panicked" /\ requests[r].result = NoResult
              ELSE Done(r) /\ requests[r].result = C2_Expected

C2_Witness ==
    \E r \in Slots :
        /\ IsIdentifierPath(requests[r].path)
        /\ Done(r)
        /\ nfs # <<>>
        /\ requests[r].result.kind = "config"
        /\ requests[r].result.content # LabelDisplay(configuration)

\* the paths of the kernel and of the Initrd and Fdt directives
C3_ListedPaths(label) ==
    {label.kernel.path}
        \cup {label.directives[i].path :
                 i \in {j \in 1..Len(label.directives) :
                           label.directives[j].tag \in {"Initrd", "Fdt"}}}

\* C3 as stated: a request without the pxelinux.cfg prefix opens a file only
\* when its path is exactly (character by character) a listed path, and then
\* that path; every other one ends in FileNotFound with nothing opened.
C3_Original ==
    \A r \in Slots :
        (Started(r) /\ ~HasPxePrefix(requests[r].path))
        => IF requests[r].path \in C3_ListedPaths(constructed.configuration)
           THEN requests[r].opened = <<requests[r].path>>
           ELSE /\ requests[r].opened = <<>>
                /\ Done(r)
                /\ requests[r].result = Error("FileNotFound")

\* C3 amended: the comparison is Path equality (component by component, so a
\* repeated separator, an inner "." or a trailing separator does not count),
\* and the path opened is the listed one, not the requested text.
C3_OpensOnlyListedFiles ==
    \A r \in Slots :
        (Started(r) /\ ~HasPxePrefix(requests[r].path))
        => LET matching == {f \in C3_ListedPaths(constructed.configuration) :
                               Components(f) = Components(requests[r].path)}
           IN  IF matching # {}
               THEN /\ Len(requests[r].opened) = 1
                    /\ requests[r].opened[1] \in matching
                    /\ Done(r) => requests[r].result.kind \in {"file", "IoError"}
               ELSE /\ requests[r].opened = <<>>
                    /\ Done(r)
                    /\ requests[r].result = Error("FileNotFound")

C3_Witness ==
    \E r \in Slots :
        /\ ~HasPxePrefix(requests[r].path)
        /\ Done(r)
        /\ requests[r].result.kind = "file"
        /\ requests[r].opened # <<requests[r].path>>
        /\ \E q \in Slots :
               /\ Done(q)
               /\ requests[q].path = Token_quiet
               /\ requests[q].result.kind = "FileNotFound"

\* C4: whatever requests have run, the server's base label is the label it
\* was constructed with.
C4_BaseLabelNeverMutated == configuration = constructed.configuration

\* an augmented configuration has been served
C4_Witness ==
    \E r \in Slots :
        /\ Done(r)
        /\ nfs # <<>>
        /\ requests[r].result.kind = "config"
        /\ requests[r].result.content # LabelDisplay(constructed.configuration)
        /\ \E q \in Slots : q # r /\ Done(q) /\ requests[q].result.kind = "config"

TerminalOutcomes == {"config", "file", "FileNotFound", "InvalidRequestPath", "IoError"}
ErrorOutcomes == {"FileNotFound", "InvalidRequestPath", "IoError"}

\* one step, as C5 wants it: tftp_get tasks only ever stand at the open or at
\* one of the five outcomes (or, with panics allowed, at the panic; a slot may
\* also hold a write request that has returned), an outcome
\* stays as it is until the task is gone, and a task that ends in an error
\* leaves the server, and every other task, as they were
C5_Step(panicAllowed) ==
    /\ crashed' => panicAllowed
    /\ \A r \in Slots :
           /\ requests'[r].pc \in {"idle", "opening", "done", "write_done"}
                  \cup (IF panicAllowed THEN {"panicked"} ELSE {})
           /\ requests'[r].pc = "done" => requests'[r].result.kind \in TerminalOutcomes
           /\ requests'[r].pc \notin {"done", "write_done"} => requests'[r].result = NoResult
           /\ Done(r) => requests'[r] \in {requests[r], Idle}
           /\ ( /\ ~Done(r)
                /\ requests'[r].pc = "done"
                /\ requests'[r].result.kind \in ErrorOutcomes )
              => /\ configuration' = configuration
                 /\ nfs' = nfs
                 /\ ~crashed'
                 /\ \A q \in Slots \ {r} : requests'[q] = requests[q]

\* C5 as stated: for any NFS configuration no request panics.
C5_Original == [][C5_Step(FALSE)]_vars

\* C5 amended: a request can panic (and take the server down) only when the
\* NFS configuration has target_ip = Static; otherwise as stated.
C5_TerminalOutcomes == [][C5_Step(StaticConfigured)]_vars

C5_Witness ==
    /\ ~StaticConfigured
    /\ nfs # <<>>
    /\ \E r, q \in Slots :
           /\ Done(r) /\ requests[r].result.kind = "IoError"
           /\ Done(q) /\ requests[q].result.kind = "config"

\* the outcome of a request made alone against the server as constructed,
\* given the storage's answer should it open a file
C6_Alone(path, io) ==
    LET step == Route(constructed.configuration, constructed.nfs, path) IN
    IF step.pc = "opening"
    THEN [pc |-> "done", opened |-> step.opened,
          result |-> OpenResult(step.opened[1], io)]
    ELSE step

\* C6: every request that has ended, in whatever interleaving with the
\* others, ended as it would have alone; one still at the open has opened
\* what it would have opened alone.
C6_RequestsIndependent ==
    \A r \in Slots :
        /\ requests[r].pc \in {"done", "panicked"}
           => LET alone == C6_Alone(requests[r].path, requests[r].io) IN
              /\ requests[r].pc = alone.pc
              /\ requests[r].result = alone.result
              /\ requests[r].opened = alone.opened
        /\ requests[r].pc = "opening"
           => LET alone == Route(constructed.configuration, constructed.nfs,
                                 requests[r].path) IN
              /\ alone.pc = "opening"
              /\ requests[r].opened = alone.opened

\* one request has ended while another, started before it ended, is still at
\* the open
C6_Witness ==
    \E r, q \in Slots :
        /\ r < q
        /\ requests[r].pc = "opening"
        /\ Done(q)
        /\ requests[q].result.kind = "config"
        /\ nfs # <<>>

-----------------------------------------------------------------------------
(* Claims about the converter (SpecTryFrom) *)

HasKey(keys, tag) == \E i \in 1..Len(keys) : keys[i].tag = tag
KeyTexts(keys, tag) == {keys[i].text : i \in {j \in 1..Len(keys) : keys[j].tag = tag}}

\* C7: the conversion fails exactly when the entry has no Title key or no
\* Linux key; when it succeeds the label's name is the text of a Title key and
\* its kernel the one Kernel of a Linux key's path.
C7_ConversionNeedsTitleAndLinux ==
    (call.fn = "try_from" /\ call.state # "called")
    => /\ call.state = "err" <=> (~HasKey(call.keys, "Title") \/ ~HasKey(call.keys, "Linux"))
       /\ call.state = "ok" <=> (HasKey(call.keys, "Title") /\ HasKey(call.keys, "Linux"))
       /\ call.state = "ok"
          => /\ call.out.name \in KeyTexts(call.keys, "Title")
             /\ call.out.kernel.tag = "Kernel"
             /\ call.out.kernel.path \in KeyTexts(call.keys, "Linux")

\* an entry with a Title and other keys but no Linux has failed
C7_Witness ==
    /\ call.fn = "try_from"
    /\ call.state = "err"
    /\ HasKey(call.keys, "Title")
    /\ HasKey(call.keys, "Devicetree")
    /\ ~HasKey(call.keys, "Linux")

C8_IsDirectiveKey(key) == key.tag \in {"Devicetree", "Options"}

\* the Devicetree and Options keys, in entry order, each as its directive
C8_Image(keys) ==
    LET kept == SelectSeq(keys, C8_IsDirectiveKey) IN
    [i \in 1..Len(kept) |->
        IF kept[i].tag = "Devicetree"
        THEN [tag |-> "Fdt", path |-> kept[i].text, tokens |-> <<>>]
        ELSE [tag |-> "Append", path |-> <<>>, tokens |-> kept[i].tokens]]

\* C8: on success the directives are exactly the Devicetree and Options keys in
\* their order, Devicetree(p) as Fdt(p) and Options(t) as Append(t); there are
\* as many directives as such keys, and none for a Title or a Linux.
C8_DirectivesAreImageOfKeys ==
    (call.fn = "try_from" /\ call.state = "ok")
    => /\ call.out.directives = C8_Image(call.keys)
       /\ Len(call.out.directives)
              = Cardinality({i \in 1..Len(call.keys) : C8_IsDirectiveKey(call.keys[i])})

\* Options, then Title and Linux, then Devicetree: two directives in that order
C8_Witness ==
    /\ call.fn = "try_from"
    /\ call.state = "ok"
    /\ Len(call.keys) = 4
    /\ call.keys[1].tag = "Options"
    /\ call.keys[4].tag = "Devicetree"
    /\ Len(call.out.directives) = 2

-----------------------------------------------------------------------------
(* Claims about the augmentation (SpecNfs) *)

Returned == call.fn = "make_nfs" /\ call.state = "returned"

C9_HasAppend(label) == \E i \in 1..Len(label.directives) : label.directives[i].tag = "Append"

\* C9: augmenting a label that holds an Append directive adds no directive and
\* puts the NFS fragments after the tokens that directive had; augmenting one
\* that holds none adds one Append directive, last, holding just the fragments.
C9_MergeIntoAppend ==
    Returned
    => LET before == call.label.directives
           after == call.out.directives
           fragments == nfs_args(call.cfg[1])
       IN  IF C9_HasAppend(call.label)
           THEN /\ Len(after) = Len(before)
                /\ \E i \in 1..Len(before) :
                       /\ before[i].tag = "Append"
                       /\ after[i].tag = "Append"
                       /\ after[i].tokens = before[i].tokens \o fragments
           ELSE /\ Len(after) = Len(before) + 1
                /\ SubSeq(after, 1, Len(before)) = before
                /\ after[Len(after)] = [tag |-> "Append", path |-> <<>>, tokens |-> fragments]

\* a label whose Append is not its last directive has been augmented
C9_Witness ==
    /\ Returned
    /\ Len(call.label.directives) = 3
    /\ call.label.directives[1].tag = "Append"
    /\ call.label.directives[1].tokens # <<>>
    /\ call.label.directives[3].tag = "Fdt"

C10_HostText(host) ==
    CASE host = <<10, 0, 0, 1>> -> <<"1","0",".","0",".","0",".","1">>
      [] host = <<192, 168, 2, 255>> -> <<"1","9","2",".","1","6","8",".","2",".","2","5","5">>

\* the five fragments, as the claim spells them
C10_Fragments(cfg) ==
    << <<"r","o","o","t","=","/","d","e","v","/","n","f","s">>,
       IF cfg.is_writable THEN <<"r","w">> ELSE <<"r","o">>,
       <<"n","f","s","r","o","o","t","=">> \o C10_HostText(cfg.host) \o <<":">> \o cfg.share \o <<",","v","e","r","s","=">>
           \o (IF cfg.version = "NFSv3" THEN <<"3">> ELSE <<"4">>) \o <<",","t","c","p">>,
       <<"r","o","o","t","w","a","i","t">>,
       <<"i","p","=","d","h","c","p">> >>

\* C10: with target_ip = Dhcp the augmentation returns, and the tokens it adds
\* (to the Append it extends, or as the new last Append) are root=/dev/nfs,
\* rw or ro, nfsroot=<host>:<share>,vers=<3|4>,tcp, rootwait, ip=dhcp, in this
\* order.
C10_DhcpFragments ==
    (call.fn = "make_nfs" /\ call.state # "called" /\ call.cfg[1].target_ip = "Dhcp")
    => /\ call.state = "returned"
       /\ LET before == call.label.directives
              after == call.out.directives
          IN  \E i \in 1..Len(after) :
                  /\ after[i].tag = "Append"
                  /\ after[i].tokens
                         = (IF i <= Len(before) THEN before[i].tokens ELSE <<>>)
                               \o C10_Fragments(call.cfg[1])
                  /\ \A j \in 1..Len(before) : j # i => after[j] = before[j]

C10_Witness ==
    /\ Returned
    /\ call.cfg[1].is_writable
    /\ call.cfg[1].version = "NFSv4"
    /\ call.cfg[1].host = <<192, 168, 2, 255>>
    /\ call.label.directives = <<>>

\* C11: augmenting any label with a configuration whose target_ip is Static
\* panics: no label and no error value comes back; with target_ip = Dhcp the
\* augmentation never panics and returns a label.
C11_StaticAugmentationPanics ==
    (call.fn = "make_nfs" /\ call.state # "called")
    => /\ call.state \in {"panicked", "returned"}
       /\ call.state = "panicked" <=> call.cfg[1].target_ip = "Static"
       /\ call.state = "panicked" => call.out = NoCall.out
       /\ call.state = "returned" => call.out.directives # <<>>

\* a label that already holds an Append directive was given with a Static
\* configuration, and the call has panicked
C11_Witness ==
    /\ call.fn = "make_nfs"
    /\ call.state = "panicked"
    /\ call.cfg[1].target_ip = "Static"
    /\ C9_HasAppend(call.label)

-----------------------------------------------------------------------------
(* Claims about the text formats (SpecText) *)

\* from_str has returned from the text to_string made of a parsed entry
Reparsed == call.fn = "from_str" /\ call.serialized /\ call.state # "called"

\* C12: for every entry the parser returns for some input text, from_str of
\* the entry's Display text succeeds and returns an equal entry: the same
\* keys in the same order with the same arguments.
C12_RoundTrip ==
    Reparsed => (call.state = "ok" /\ call.keys = call.entry)

\* an entry of two keys, one an Options key with an empty last token, has
\* gone round from an input text that is not its Display text
C12_Witness ==
    /\ Reparsed
    /\ call.state = "ok"
    /\ Len(call.entry) = 2
    /\ \E i \in 1..2 : call.entry[i].tag = "Options" /\ Len(call.entry[i].tokens) = 3
    /\ call.text # InputText(call.lines, call.ends)

Parsed == call.fn = "boot_entry" /\ call.state = "parsed"

Keywords == { <<"t","i","t","l","e">>, <<"l","i","n","u","x">>, <<"d","e","v","i","c","e","t","r","e","e">>, <<"o","p","t","i","o","n","s">> }

\* the line begins with one of the four keywords, in any case
StartsWithKeyword(line) ==
    \E keyword \in Keywords :
        /\ Len(line) >= Len(keyword)
        /\ \A i \in 1..Len(keyword) : ToLowercase(line[i]) = keyword[i]

\* the key each key line of the inputs stands for
ExpectedKey(line) ==
    CASE line = <<"l","i","n","u","x"," ","/","I","m","a","g","e">> -> Linux(<<"/","I","m","a","g","e">>)
      [] line = <<"L","I","N","U","X","\t","/","v","m","l","i","n","u","z">> -> Linux(<<"/","v","m","l","i","n","u","z">>)
      [] line = <<"T","i","t","l","e"," ","F","e","d","o","r","a"," ","1","9">> -> Title(<<"F","e","d","o","r","a"," ","1","9">>)
      [] line = <<"d","E","v","I","c","E","t","R","e","E"," ","/","b","o","o","t",".","d","t","b">> -> Devicetree(<<"/","b","o","o","t",".","d","t","b">>)
      [] line = <<"o","p","t","i","o","n","s"," ","q","u","i","e","t"," ","s","p","l","a","s","h">> -> Options(<< <<"q","u","i","e","t">>, <<"s","p","l","a","s","h">> >>)
      [] line = <<"O","P","T","I","O","N","S"," ","a"," "," ","b"," ">> -> Options(<< <<"a">>, <<"b">>, NoText >>)

ExpectedKeys(lines) == [i \in 1..Len(lines) |-> ExpectedKey(lines[i])]

\* the first line that starts with no keyword, 0 when there is none
FirstOffending(lines) ==
    IF \E i \in 1..Len(lines) : ~StartsWithKeyword(lines[i])
    THEN CHOOSE i \in 1..Len(lines) :
             ~StartsWithKeyword(lines[i]) /\ \A j \in 1..(i - 1) : StartsWithKeyword(lines[j])
    ELSE 0

\* C13: when boot_entry meets a line that starts with no recognized keyword
\* it returns the keys of the lines before it, in order, and the remainder
\* is the input from the first character of that line to the end, however
\* many line endings stand before the line.
C13_RemainderIsOffendingLine ==
    (Parsed /\ FirstOffending(call.lines) # 0)
    => LET k == FirstOffending(call.lines)
           n == Len(call.lines)
       IN  /\ call.keys = ExpectedKeys(SubSeq(call.lines, 1, k - 1))
           /\ call.rest = InputText(SubSeq(call.lines, k, n), SubSeq(call.ends, k, n))

\* from_str has returned from an input text
FromStrReturned == call.fn = "from_str" /\ ~call.serialized /\ call.state # "called"

\* C14: from_str returns an entry exactly when boot_entry leaves an empty
\* remainder of the same text, and then the entry boot_entry returns;
\* whenever text remains it returns an error that carries the remainder and
\* no key of a partly parsed entry.
C14_FromStrNeedsEmptyRemainder ==
    FromStrReturned
    => LET low == boot_entry(call.text) IN
       /\ call.state \in {"ok", "err"}
       /\ call.state = "ok" <=> low.rest = NoText
       /\ call.state = "ok" => (call.keys = low.out /\ call.error = NoText)
       /\ call.state = "err"
          => /\ call.keys = <<>>
             /\ \E i \in 1..Len(call.error) :
                    SubSeq(call.error, i, i + Len(low.rest) - 1) = low.rest

\* from_str has failed on a text whose first line is a key line: the
\* remainder is in the error and the key is not returned
C14_Witness ==
    /\ FromStrReturned
    /\ call.state = "err"
    /\ Len(call.lines) = 2
    /\ StartsWithKeyword(call.lines[1])
    /\ boot_entry(call.text).out # <<>>

\* every line of the input is a key line
AllKeyLines == \A i \in 1..Len(call.lines) : StartsWithKeyword(call.lines[i])

\* no argument of the keys holds a line-ending character
NoLineEndingIn(keys) ==
    \A i \in 1..Len(keys) :
        /\ \A j \in 1..Len(keys[i].text) : ~is_line_ending(keys[i].text[j])
        /\ \A t \in 1..Len(keys[i].tokens) :
               \A j \in 1..Len(keys[i].tokens[t]) : ~is_line_ending(keys[i].tokens[t][j])

\* C15: key lines joined by one or more line endings, each LF or CRLF, with
\* or without one trailing line ending, parse to the entry the same lines
\* joined by single LFs parse to: the keys of the lines in order, nothing
\* left over, and no trace of the line endings in the keys.
C15_LineEndingUniformity ==
    /\ (Parsed /\ AllKeyLines)
       => /\ call.keys = boot_entry(Join(call.lines, <<"\n">>)).out
          /\ call.keys = ExpectedKeys(call.lines)
          /\ call.rest = NoText
          /\ NoLineEndingIn(call.keys)
    /\ (FromStrReturned /\ AllKeyLines)
       => /\ call.state = "ok"
          /\ call.keys = ExpectedKeys(call.lines)

\* two key lines with CRLF LF between them and a CRLF after
C15_Witness ==
    /\ Parsed
    /\ AllKeyLines
    /\ Len(call.lines) = 2
    /\ call.ends = << <<"\r","\n","\n">>, <<"\r","\n">> >>
    /\ Len(call.keys) = 2

\* the line with the letters of its first word in lower case
LowerKeyword(line) ==
    LET n == TakeTill(line, Whitespace) IN
    [i \in 1..Len(line) |-> IF i <= n THEN ToLowercase(line[i]) ELSE line[i]]

LowerKeywords(lines) == [i \in 1..Len(lines) |-> LowerKeyword(lines[i])]

\* the lines of a text in which "\n" ends every line
RECURSIVE TextLines(_)
TextLines(text) ==
    IF text = <<>> THEN <<>>
    ELSE LET n == TakeTill(text, {"\n"}) IN
         <<SubSeq(text, 1, n)>> \o TextLines(After(text, n + 1))

StartsWith(line, prefix) ==
    Len(line) >= Len(prefix) /\ SubSeq(line, 1, Len(prefix)) = prefix

SourceKeyword(tag) ==
    CASE tag = "Title" -> <<"t","i","t","l","e">> [] tag = "Linux" -> <<"l","i","n","u","x">>
      [] tag = "Devicetree" -> <<"d","e","v","i","c","e","t","r","e","e">> [] tag = "Options" -> <<"o","p","t","i","o","n","s">>

TargetKeyword(tag) ==
    CASE tag = "Initrd" -> <<"I","N","I","T","R","D">> [] tag = "Fdt" -> <<"F","D","T">> [] tag = "Append" -> <<"A","P","P","E","N","D">>

LabelReturned == call.fn = "to_string" /\ call.state = "returned"

\* C16: a text parses to the same keys and remainder as the text with every
\* line's keyword in lower case; the Display text of an entry has one line
\* per key that begins with the key's keyword in lower case, and the Display
\* text of a label has lines that begin with LABEL, KERNEL and, per
\* directive, INITRD, FDT or APPEND in upper case.
C16_KeywordCase ==
    /\ Parsed
       => LET lower == boot_entry(InputText(LowerKeywords(call.lines), call.ends)) IN
          call.keys = lower.out /\ Len(call.rest) = Len(lower.rest)
    /\ (call.fn = "from_str" /\ call.serialized)
       => LET lines == TextLines(call.text) IN
          /\ Len(lines) = Len(call.entry)
          /\ \A i \in 1..Len(lines) :
                 StartsWith(lines[i], SourceKeyword(call.entry[i].tag) \o <<" ">>)
    /\ LabelReturned
       => LET lines == TextLines(call.text) IN
          /\ Len(lines) = Len(call.label.directives) + 2
          /\ StartsWith(lines[1], <<"L","A","B","E","L"," ">>)
          /\ StartsWith(lines[2], <<"K","E","R","N","E","L"," ">>)
          /\ \A i \in 1..Len(call.label.directives) :
                 StartsWith(lines[i + 2],
                            TargetKeyword(call.label.directives[i].tag) \o <<" ">>)

\* a text whose two lines spell their keywords in mixed and in upper case has
\* been parsed to two keys
C16_Witness ==
    /\ Parsed
    /\ call.lines = << <<"d","E","v","I","c","E","t","R","e","E"," ","/","b","o","o","t",".","d","t","b">>, <<"O","P","T","I","O","N","S"," ","a"," "," ","b"," ">> >>
    /\ Len(call.keys) = 2
    /\ call.keys[1].tag = "Devicetree"

\* the tokens with one space between them
RECURSIVE SpaceJoined(_)
SpaceJoined(tokens) ==
    IF tokens = <<>> THEN <<>>
    ELSE IF Len(tokens) = 1 THEN tokens[1]
    ELSE tokens[1] \o <<" ">> \o SpaceJoined(Tail(tokens))

\* the line the claim gives for a directive
C17_DirectiveLine(d) ==
    CASE d.tag = "Initrd" -> <<"I","N","I","T","R","D"," ">> \o d.path
      [] d.tag = "Fdt" -> <<"F","D","T"," ">> \o d.path
      [] d.tag = "Append" -> <<"A","P","P","E","N","D"," ">> \o SpaceJoined(d.tokens)

\* the lines the claim gives for a label
C17_Lines(label) ==
    << <<"L","A","B","E","L"," ">> \o label.name, <<"K","E","R","N","E","L"," ">> \o label.kernel.path >>
        \o [i \in 1..Len(label.directives) |-> C17_DirectiveLine(label.directives[i])]

\* every line followed by one LF
RECURSIVE Terminated(_)
Terminated(lines) ==
    IF lines = <<>> THEN <<>> ELSE lines[1] \o <<"\n">> \o Terminated(Tail(lines))

-----------------------------------------------------------------------------
(* Claims about write requests (Spec) *)

WriteDone(r) == requests[r].pc = "write_done"

\* C18: every write request, whatever its client, path and size and whatever
\* the server is doing, returns the illegal-operation error; no writer is
\* ever opened, nothing is asked of storage, and the server's base label and
\* NFS configuration stay as constructed.
C18_WritesRejected ==
    /\ \A r \in Slots : requests[r].result.kind # "writer"
    /\ \A r \in Slots :
           WriteDone(r)
           => /\ requests[r].result = Error("IllegalOperation")
              /\ requests[r].opened = <<>>
              /\ configuration = constructed.configuration
              /\ nfs = constructed.nfs

\* a write request has been rejected while a file request is at its open on
\* a server with an NFS configuration
C18_Witness ==
    \E r, q \in Slots :
        /\ WriteDone(r)
        /\ requests[q].pc = "opening"
        /\ nfs # <<>>

-----------------------------------------------------------------------------
(* More claims about the converter (SpecTryFrom) *)

\* the index of the last key with the tag, 0 when there is none
LastKey(keys, tag) ==
    IF HasKey(keys, tag)
    THEN CHOOSE i \in 1..Len(keys) :
             keys[i].tag = tag /\ \A j \in (i + 1)..Len(keys) : keys[j].tag # tag
    ELSE 0

\* C19: the name of a converted label is the argument of the last Title key
\* of the entry and its kernel the path of the last Linux key; an earlier
\* Title or Linux key shows nowhere in the label: the directives are those of
\* the Devicetree and Options keys alone.
C19_LastTitleAndLinuxWin ==
    (call.fn = "try_from" /\ call.state = "ok")
    => /\ call.out.name = call.keys[LastKey(call.keys, "Title")].text
       /\ call.out.kernel = Kernel(call.keys[LastKey(call.keys, "Linux")].text)
       /\ call.out.directives = C8_Image(call.keys)

\* an entry with two different Title keys and two different Linux keys has
\* been converted
C19_Witness ==
    /\ call.fn = "try_from"
    /\ call.state = "ok"
    /\ Cardinality(KeyTexts(call.keys, "Title")) = 2
    /\ Cardinality(KeyTexts(call.keys, "Linux")) = 2

-----------------------------------------------------------------------------
(* More claims about the augmentation (SpecNfs) *)

\* the position of the first Append directive, or the one after the last
\* directive when there is none
C20_Slot(directives) ==
    IF \E i \in 1..Len(directives) : directives[i].tag = "Append"
    THEN CHOOSE i \in 1..Len(directives) :
             /\ directives[i].tag = "Append"
             /\ \A j \in 1..(i - 1) : directives[j].tag # "Append"
    ELSE Len(directives) + 1

\* C20: the augmented label has the name and the kernel of the label given;
\* one directive slot differs, the first Append in list order (or a new last
\* one), which holds the old tokens followed by the fragments; every other
\* directive, a later Append included, is the same and in the same position.
C20_OneSlotChanges ==
    Returned
    => LET before == call.label.directives
           after == call.out.directives
           slot == C20_Slot(before)
       IN  /\ call.out.name = call.label.name
           /\ call.out.kernel = call.label.kernel
           /\ Len(after) = (IF slot <= Len(before) THEN Len(before) ELSE Len(before) + 1)
           /\ \A j \in 1..Len(before) : j # slot => after[j] = before[j]
           /\ after[slot].tag = "Append"
           /\ after[slot].path = NoText
           /\ after[slot].tokens
                  = (IF slot <= Len(before) THEN before[slot].tokens ELSE <<>>)
                        \o nfs_args(call.cfg[1])

\* a label with two different Append directives around another directive has
\* been augmented
C20_Witness ==
    /\ Returned
    /\ Len(call.label.directives) = 3
    /\ call.label.directives[1].tag = "Append"
    /\ call.label.directives[2].tag # "Append"
    /\ call.label.directives[3].tag = "Append"
    /\ call.label.directives[3] # call.label.directives[1]
    /\ call.out.directives[3] = call.label.directives[3]

-----------------------------------------------------------------------------
(* More claims about file requests (Spec) *)

\* the request of slot r is a file request: its path is neither invalid nor
\* that of a PXE configuration
FileRequest(r) == Started(r) /\ is_pxe_config_path(requests[r].path) = "false"

\* the listed files of the label the request path is equal to
MatchingFiles(r) ==
    {f \in C3_ListedPaths(constructed.configuration) : PathEq(f, requests[r].path)}

\* C21: a file request whose path is a listed file ends in IoError (the
\* transport's message "I/O error") whenever the storage fails to open it,
\* "no such file" included, and never in FileNotFound; FileNotFound is the
\* result only of a request whose path is equal to no listed file, and then
\* nothing was asked of storage.
C21_OpenFailureIsIoError ==
    \A r \in Slots :
        (FileRequest(r) /\ Done(r))
        => /\ MatchingFiles(r) # {}
              => /\ requests[r].io \in StorageOutcomes
                 /\ requests[r].result.kind # "FileNotFound"
                 /\ requests[r].io # "Ok"
                    => /\ requests[r].result = Error("IoError")
                       /\ PacketErrorFrom(requests[r].result.kind)
                              = [kind |-> "Msg", msg |-> <<"I","/","O"," ","e","r","r","o","r">>]
           /\ requests[r].result.kind = "FileNotFound"
              => /\ MatchingFiles(r) = {}
                 /\ requests[r].opened = <<>>
                 /\ requests[r].io = "none"
                 /\ PacketErrorFrom(requests[r].result.kind).kind = "FileNotFound"

\* the storage has said "no such file" for a listed file, another open has
\* failed otherwise, both ended in IoError
C21_Witness ==
    \E r, q \in Slots :
        /\ FileRequest(r) /\ Done(r) /\ MatchingFiles(r) # {}
        /\ requests[r].io = "NotFound"
        /\ requests[r].result = Error("IoError")
        /\ FileRequest(q) /\ Done(q) /\ MatchingFiles(q) # {}
        /\ requests[q].io = "Io"
        /\ requests[q].result = Error("IoError")

-----------------------------------------------------------------------------
(* Claims about the totality of the parser (SpecText) *)

IsSuffix(s, t) == Len(s) <= Len(t) /\ SubSeq(t, Len(t) - Len(s) + 1, Len(t)) = s

\* the text is the trailing-text error of a non-empty remainder of the input
IsTrailingTextError(error, input) ==
    \E n \in 1..Len(input) :
        error = <<"t","r","a","i","l","i","n","g"," ","g","a","r","b","a","g","e",":"," ","\"">> \o SubSeq(input, Len(input) - n + 1, Len(input)) \o <<"\"">>

BootEntryReturned == call.fn = "boot_entry" /\ call.state # "called"
FromStrEnded == call.fn = "from_str" /\ call.state # "called"

\* C22: boot_entry returns an entry and a remainder for every input, never a
\* parse error, and the remainder is a suffix of the input; from_str never
\* panics, and an error it returns is the trailing-text error of a non-empty
\* remainder of its input.
C22_ParserIsTotal ==
    /\ BootEntryReturned
       => /\ call.state = "parsed"
          /\ IsSuffix(call.rest, call.text)
    /\ FromStrEnded
       => /\ call.state \in {"ok", "err"}
          /\ call.state = "err" => IsTrailingTextError(call.error, call.text)

\* boot_entry has returned no key and the whole input as remainder, for an
\* input of several lines whose first line is no key
C22_Witness ==
    /\ BootEntryReturned
    /\ call.state = "parsed"
    /\ Len(call.lines) = MaxLines
    /\ call.keys = <<>>
    /\ call.rest = call.text

-----------------------------------------------------------------------------
(* Claims about the tokens of an Options key (SpecText) *)

\* C23 as stated: every token of an Options key that boot_entry returns is
\* not empty and holds no white space character, whatever the options line,
\* trailing blanks before its end included.
C23_TokensAreNonEmptyWords ==
    Parsed
    => \A i \in 1..Len(call.keys) :
           call.keys[i].tag = "Options"
           => \A j \in 1..Len(call.keys[i].tokens) :
                  /\ call.keys[i].tokens[j] # NoText
                  /\ \A k \in 1..Len(call.keys[i].tokens[j]) :
                         call.keys[i].tokens[j][k] \notin Whitespace

====
